---- MODULE Spec2Model ----
(***************************************************************************)
(* Continuum.binary_search of ext/memcache/binary_search.c: the lookup of  *)
(* a hashed key on the sorted continuum of a consistent-hashing ring.      *)
(*                                                                         *)
(* A call is modelled statement by statement.  The C locals upper, lower   *)
(* and idx are `int`, r and l are `unsigned int`, the array length is a    *)
(* `long`, and the query and the entries' values are Ruby Integers of any  *)
(* size.  The build modelled is LP64 (long wider than int).  The widths    *)
(* are scaled down (IntBits) so that the arrays whose length does not fit  *)
(* an int can be enumerated; every relation between the widths is kept.    *)
(***************************************************************************)
EXTENDS Integers, Sequences, FiniteSets, TLC

VARIABLES ary, number, pc, upper, lower, idx, r, l, ret, reads

vars == <<ary, number, pc, upper, lower, idx, r, l, ret, reads>>

(***************************************************************************)
(* Bounds of the model.                                                    *)
(***************************************************************************)
\* Width in bits of the C types int and unsigned int (32 on the build).
IntBits == 4
\* Arrays up to this length are enumerated in every order of their values;
\* longer arrays are enumerated sorted only.
MaxLen == 4

Pow2(k) == 2 ^ k

IntMax == Pow2(IntBits - 1) - 1
IntMin == -Pow2(IntBits - 1)
UIntMax == Pow2(IntBits) - 1

\* The longest array of the model.  RARRAY_LEN is a long, so an array can
\* hold more than INT_MAX + 1 entries: at this length n - 1 exceeds INT_MAX.
MaxAryLen == IntMax + 2

InInt(x) == IntMin <= x /\ x <= IntMax


(***************************************************************************)
(* The C arithmetic of the function.                                       *)
(***************************************************************************)
\* Conversion of a long to int (line 26): implementation-defined, and
\* reduction modulo 2^IntBits on the compilers that build the extension.
ToInt(x) == ((x - IntMin) % Pow2(IntBits)) + IntMin

\* C's integer division truncates toward zero (line 33).
CDiv(a, b) == IF a >= 0 THEN a \div b ELSE -((-a) \div b)

\* NUM2UINT (lines 29 and 36), Ruby's conversion of an Integer to unsigned
\* int, raises RangeError for an Integer above UINT_MAX or below INT_MIN; an
\* Integer in INT_MIN .. -1 is accepted and converted modulo 2^IntBits.
NUM2UINTRaises(x) == x > UIntMax \/ x < IntMin

NUM2UINT(x) == x % Pow2(IntBits)

\* Line 26 without the "- 1".
InitialUpperNoDecrement(n) == ToInt(n)

\* int upper = RARRAY_LEN(ary) - 1: the subtraction is done in long.
InitialUpper(n) == ToInt(n - 1)

\* A signed int operation whose mathematical result x overflows is undefined:
\* the build either wraps it or keeps the exact value in a wider register.
IntOutcomes(x) == IF InInt(x) THEN {x} ELSE {ToInt(x), x}

\* idx = (lower + upper) / 2.
MidpointOutcomes(lo, up) == {CDiv(s, 2) : s \in IntOutcomes(lo + up)}

InBounds(S, i) == 0 <= i /\ i <= Len(S) - 1

(***************************************************************************)
(* The inputs: arrays of entries (their values), and queries.              *)
(***************************************************************************)
\* Values of the entries: the least, the greatest and one in between.  They
\* are in the range of unsigned int, so NUM2UINT at line 36 raises on none.
EntryVals == {0, 2, UIntMax}

\* Queries: equal to an entry, between two entries, and outside the range
\* of unsigned int on both sides.
Queries == {IntMin - 1, -1, 0, 1, 2, 3, UIntMax, UIntMax + 1}

\* The sorted array of length n with a entries 0, then 2 up to position b,
\* then UIntMax.
Blocks(a, b, n) ==
    [i \in 1..n |-> IF i <= a THEN 0 ELSE IF i <= b THEN 2 ELSE UIntMax]

SortedArrays == {Blocks(a, b, n) : a \in 0..MaxAryLen, b \in 0..MaxAryLen, n \in 0..MaxAryLen}

AnyArrays == UNION {[1..n -> EntryVals] : n \in 0..MaxLen}

Arrays == AnyArrays \cup SortedArrays

IsSorted(S) == \A i \in 1..Len(S) - 1 : S[i] <= S[i + 1]

(***************************************************************************)
(* State.  ary is the array passed to the calls; every other variable is   *)
(* a function of the call: its argument, its position, its locals, its     *)
(* result, and the number of entries it has read (saturating).             *)
(***************************************************************************)
\* floor(log2(n)) for n >= 1.
RECURSIVE Log2Floor(_)
Log2Floor(n) == IF n <= 1 THEN 0 ELSE 1 + Log2Floor(n \div 2)

\* The count of entries read saturates two above the most a search of the
\* longest array needs.
ReadsCap == Log2Floor(MaxAryLen) + 3

Calls == DOMAIN pc

InitCalls(C, A, Q) ==
    /\ ary \in A
    /\ number \in [C -> Q]
    /\ pc = [c \in C |-> "start"]
    /\ upper = [c \in C |-> 0]
    /\ lower = [c \in C |-> 0]
    /\ idx = [c \in C |-> 0]
    /\ r = [c \in C |-> 0]
    /\ l = [c \in C |-> 0]
    /\ ret = [c \in C |-> 0]
    /\ reads = [c \in C |-> 0]

Init == InitCalls({"c1"}, Arrays, Queries)

\* Lines 26-28.
Enter(c) ==
    /\ pc[c] = "start"
    /\ upper' = [upper EXCEPT ![c] = InitialUpper(Len(ary))]
    /\ lower' = [lower EXCEPT ![c] = 0]
    /\ idx' = [idx EXCEPT ![c] = 0]
    /\ pc' = [pc EXCEPT ![c] = "conv"]
    /\ UNCHANGED <<ary, number, r, l, ret, reads>>

\* Line 29, the conversion succeeds.
Convert(c) ==
    /\ pc[c] = "conv"
    /\ ~NUM2UINTRaises(number[c])
    /\ r' = [r EXCEPT ![c] = NUM2UINT(number[c])]
    /\ pc' = [pc EXCEPT ![c] = "test"]
    /\ UNCHANGED <<ary, number, upper, lower, idx, l, ret, reads>>

\* Line 29, NUM2UINT raises RangeError: the call is left by the exception.
ConvertRaise(c) ==
    /\ pc[c] = "conv"
    /\ NUM2UINTRaises(number[c])
    /\ pc' = [pc EXCEPT ![c] = "raised"]
    /\ UNCHANGED <<ary, number, upper, lower, idx, r, l, ret, reads>>

\* Line 32, the loop condition holds.
LoopEnter(c) ==
    /\ pc[c] = "test"
    /\ lower[c] <= upper[c]
    /\ pc' = [pc EXCEPT ![c] = "mid"]
    /\ UNCHANGED <<ary, number, upper, lower, idx, r, l, ret, reads>>

\* Lines 32 and 47, the loop condition fails: return INT2FIX(upper).
LoopExit(c) ==
    /\ pc[c] = "test"
    /\ lower[c] > upper[c]
    /\ ret' = [ret EXCEPT ![c] = upper[c]]
    /\ pc' = [pc EXCEPT ![c] = "done"]
    /\ UNCHANGED <<ary, number, upper, lower, idx, r, l, reads>>

\* Line 33 with idx shared by the calls, as a `static int idx` would be.
MidpointShared(c) ==
    /\ pc[c] = "mid"
    /\ \E m \in MidpointOutcomes(lower[c], upper[c]) :
           idx' = [k \in Calls |-> m]
    /\ pc' = [pc EXCEPT ![c] = "read"]
    /\ UNCHANGED <<ary, number, upper, lower, r, l, ret, reads>>

\* Line 33.
Midpoint(c) ==
    /\ pc[c] = "mid"
    /\ \E m \in MidpointOutcomes(lower[c], upper[c]) :
           idx' = [idx EXCEPT ![c] = m]
    /\ pc' = [pc EXCEPT ![c] = "read"]
    /\ UNCHANGED <<ary, number, upper, lower, r, l, ret, reads>>

\* Lines 35-36, idx is an index of the array: the entry's value is read.
ReadEntry(c) ==
    /\ pc[c] = "read"
    /\ InBounds(ary, idx[c])
    /\ l' = [l EXCEPT ![c] = NUM2UINT(ary[idx[c] + 1])]
    /\ reads' = [reads EXCEPT ![c] = IF @ < ReadsCap THEN @ + 1 ELSE @]
    /\ pc' = [pc EXCEPT ![c] = "cmp"]
    /\ UNCHANGED <<ary, number, upper, lower, idx, r, ret>>

\* Lines 35-36, idx is outside the array: RARRAY_PTR(ary)[idx] reads memory
\* that is no entry.  The word read may answer `value` with any number...
ReadOutOfBounds(c) ==
    /\ pc[c] = "read"
    /\ ~InBounds(ary, idx[c])
    /\ \E g \in 0..UIntMax : l' = [l EXCEPT ![c] = g]
    /\ pc' = [pc EXCEPT ![c] = "cmp"]
    /\ UNCHANGED <<ary, number, upper, lower, idx, r, ret, reads>>

\* ... or the read or the method call on it ends the process or raises.
ReadFault(c) ==
    /\ pc[c] = "read"
    /\ ~InBounds(ary, idx[c])
    /\ \E o \in {"crashed", "raised"} : pc' = [pc EXCEPT ![c] = o]
    /\ UNCHANGED <<ary, number, upper, lower, idx, r, l, ret, reads>>

\* Lines 37-38.
CompareEqual(c) ==
    /\ pc[c] = "cmp"
    /\ l[c] = r[c]
    /\ ret' = [ret EXCEPT ![c] = idx[c]]
    /\ pc' = [pc EXCEPT ![c] = "done"]
    /\ UNCHANGED <<ary, number, upper, lower, idx, r, l, reads>>

\* Lines 40-41.
CompareGreater(c) ==
    /\ pc[c] = "cmp"
    /\ l[c] > r[c]
    /\ \E u \in IntOutcomes(idx[c] - 1) : upper' = [upper EXCEPT ![c] = u]
    /\ pc' = [pc EXCEPT ![c] = "test"]
    /\ UNCHANGED <<ary, number, lower, idx, r, l, ret, reads>>

\* Lines 43-44.
CompareLess(c) ==
    /\ pc[c] = "cmp"
    /\ l[c] < r[c]
    /\ \E w \in IntOutcomes(idx[c] + 1) : lower' = [lower EXCEPT ![c] = w]
    /\ pc' = [pc EXCEPT ![c] = "test"]
    /\ UNCHANGED <<ary, number, upper, idx, r, l, ret, reads>>

Next ==
    \/ \E c \in Calls : Enter(c)
    \/ \E c \in Calls : Convert(c)
    \/ \E c \in Calls : ConvertRaise(c)
    \/ \E c \in Calls : LoopEnter(c)
    \/ \E c \in Calls : LoopExit(c)
    \/ \E c \in Calls : Midpoint(c)
    \/ \E c \in Calls : ReadEntry(c)
    \/ \E c \in Calls : ReadOutOfBounds(c)
    \/ \E c \in Calls : ReadFault(c)
    \/ \E c \in Calls : CompareEqual(c)
    \/ \E c \in Calls : CompareGreater(c)
    \/ \E c \in Calls : CompareLess(c)

Spec == Init /\ [][Next]_vars

\* Two calls on the same array, their steps interleaved in any order.  The
\* arrays are the short ones in every order, and the shortest array on which
\* lower + upper overflows.
ConcMaxLen == 2

ConcArrays ==
    {S \in AnyArrays : Len(S) <= ConcMaxLen}
        \cup {[i \in 1..(IntMax \div 2 + 2) |-> 0]}

ConcQueries == {-1, 0, 1, UIntMax + 1}

InitConc == InitCalls({"c1", "c2"}, ConcArrays, ConcQueries)

SpecConc == InitConc /\ [][Next]_vars

(***************************************************************************)
(* The function as a whole.                                                *)
(***************************************************************************)
\* What one call alone returns, as far as C defines it: "ret" with the index,
\* "raised" when the conversion of the query raises, "undefined" when the
\* call overflows an int or reads outside the array.
RECURSIVE search_loop(_, _, _, _)
search_loop(S, q, lo, up) ==
    IF lo > up THEN [kind |-> "ret", val |-> up]
    ELSE IF ~InInt(lo + up) THEN [kind |-> "undefined", val |-> 0]
    ELSE LET i == CDiv(lo + up, 2) IN
         IF ~InBounds(S, i) THEN [kind |-> "undefined", val |-> 0]
         ELSE LET v == NUM2UINT(S[i + 1]) IN
              IF v = q THEN [kind |-> "ret", val |-> i]
              ELSE IF v > q
                   THEN IF InInt(i - 1) THEN search_loop(S, q, lo, i - 1)
                        ELSE [kind |-> "undefined", val |-> 0]
                   ELSE IF InInt(i + 1) THEN search_loop(S, q, i + 1, up)
                        ELSE [kind |-> "undefined", val |-> 0]

binary_search(S, q) ==
    IF NUM2UINTRaises(q) THEN [kind |-> "raised", val |-> 0]
    ELSE search_loop(S, NUM2UINT(q), 0, InitialUpper(Len(S)))

\* The Ruby reference of the header comment: Integers of any size, compared
\* by <=>, and a division that floors.
RECURSIVE ruby_loop(_, _, _, _)
ruby_loop(S, value, lo, up) ==
    IF lo <= up
    THEN LET i == (lo + up) \div 2 IN
         IF S[i + 1] = value THEN i
         ELSE IF S[i + 1] > value THEN ruby_loop(S, value, lo, i - 1)
         ELSE ruby_loop(S, value, i + 1, up)
    ELSE up

ruby_binary_search(S, value) == ruby_loop(S, value, 0, Len(S) - 1)

(***************************************************************************)
(* Vocabulary of the claims.                                               *)
(***************************************************************************)
\* The query is in the range of unsigned int.
Representable(q) == 0 <= q /\ q <= UIntMax

Failed(c) == pc[c] \in {"raised", "crashed"}

Contains(S, q) == \E i \in 1..Len(S) : S[i] = q

\* The largest index (from 0) of an entry below q, -1 when there is none.
Predecessor(S, q) ==
    LET below == {i \in 0..Len(S) - 1 : S[i + 1] < q}
    IN IF below = {} THEN -1 ELSE CHOOSE i \in below : \A j \in below : j <= i

\* The most entries a search of n entries reads.
MaxReads(n) == IF n = 0 THEN 0 ELSE Log2Floor(n) + 1

\* The arrays on which no int of the call can overflow: 2 * (n - 1) fits.
FitsInt(S) == 2 * (Len(S) - 1) <= IntMax

\* C1: for a sorted array of n >= 1 entries and an unsigned query equal to
\* some entry, the call returns an index i in 0..n-1 with S[i] = q.
C1Claim ==
    \A c \in Calls :
        (IsSorted(ary) /\ Len(ary) >= 1 /\ Representable(number[c])
            /\ Contains(ary, number[c]))
        => /\ ~Failed(c)
           /\ pc[c] = "done" => /\ InBounds(ary, ret[c])
                                /\ ary[ret[c] + 1] = number[c]

\* C2: for a sorted array and an unsigned query equal to no entry, the call
\* returns the predecessor index: the largest i with S[i] < q, or -1.
C2Claim ==
    \A c \in Calls :
        (IsSorted(ary) /\ Representable(number[c]) /\ ~Contains(ary, number[c]))
        => /\ ~Failed(c)
           /\ pc[c] = "done" => ret[c] = Predecessor(ary, number[c])

\* C3: on the empty array the call returns -1 for every query it accepts,
\* without entering the loop and without reading an entry.
C3EmptyReturnsMinusOne ==
    \A c \in Calls :
        (Len(ary) = 0 /\ ~NUM2UINTRaises(number[c]))
        => /\ pc[c] \in {"start", "conv", "test", "done"}
           /\ reads[c] = 0
           /\ pc[c] = "done" => ret[c] = -1

C3Witness ==
    \E c \in Calls : Len(ary) = 0 /\ pc[c] = "done" /\ ret[c] = -1 /\ reads[c] = 0

\* C4: for every array of n >= 0 entries, sorted or not, and every unsigned
\* query, the call raises no error and returns r with -1 <= r <= n - 1.
C4Claim ==
    \A c \in Calls :
        Representable(number[c])
        => /\ ~Failed(c)
           /\ pc[c] = "done" => -1 <= ret[c] /\ ret[c] <= Len(ary) - 1

\* C5: the call terminates: the width upper - lower + 1 strictly decreases at
\* every iteration of the loop, and the call reads at most floor(log2(n)) + 1
\* entries (none when n = 0).
C5Claim ==
    /\ [](\A c \in Calls :
            Representable(number[c])
            => ~Failed(c) /\ reads[c] <= MaxReads(Len(ary)))
    /\ [][\A c \in Calls :
            (Representable(number[c]) /\ pc[c] = "cmp" /\ pc'[c] = "test")
            => upper'[c] - lower'[c] < upper[c] - lower[c]]_vars

\* C6: the index arithmetic does not overflow or wrap: n - 1 is representable
\* in the type of upper, lower + upper is representable at every iteration,
\* and idx is the mathematical floor((lower + upper) / 2).
C6Claim ==
    \A c \in Calls :
        Representable(number[c])
        => /\ pc[c] = "start" => InInt(Len(ary) - 1)
           /\ pc[c] = "mid" => InInt(lower[c] + upper[c])
           /\ pc[c] = "read" => idx[c] = (lower[c] + upper[c]) \div 2

\* C7: a query outside the range of unsigned int (negative, or above
\* UINT_MAX) makes the call fail with a conversion error before any entry is
\* read; it is never replaced by an in-range value.
C7Claim ==
    \A c \in Calls :
        ~Representable(number[c])
        => /\ pc[c] \in {"start", "conv", "raised"}
           /\ reads[c] = 0

\* C8: calls interleaved on the same array return what each returns alone,
\* and no step writes the array or the locals of another call.
C8ConcurrentAsAlone ==
    /\ [](\A c \in Calls :
            LET alone == binary_search(ary, number[c]) IN
            /\ alone.kind = "ret" => /\ ~Failed(c)
                                     /\ pc[c] = "done" => ret[c] = alone.val
            /\ alone.kind = "raised" => pc[c] \in {"start", "conv", "raised"})
    /\ [][/\ ary' = ary
          /\ \A c \in Calls :
                pc'[c] = pc[c]
                => <<upper[c], lower[c], idx[c], r[c], l[c], ret[c]>>'
                     = <<upper[c], lower[c], idx[c], r[c], l[c], ret[c]>>]_vars

C8Witness ==
    /\ pc["c1"] = "done" /\ reads["c1"] >= 2
    /\ pc["c2"] = "cmp" /\ reads["c2"] >= 1
    /\ number["c1"] # number["c2"]

\* C9: for every array, sorted or not, and every unsigned query the call
\* returns what the Ruby reference of the header comment returns.
C9Claim ==
    \A c \in Calls :
        Representable(number[c])
        => /\ ~Failed(c)
           /\ pc[c] = "done" => ret[c] = ruby_binary_search(ary, number[c])

\* C10: whenever an entry is read, 0 <= lower <= idx <= upper <= n - 1; and
\* through the call lower <= n, upper >= -1 and lower <= upper + 1.
C10Claim ==
    \A c \in Calls :
        Representable(number[c])
        => /\ pc[c] \in {"read", "cmp"}
              => /\ 0 <= lower[c] /\ lower[c] <= idx[c]
                 /\ idx[c] <= upper[c] /\ upper[c] <= Len(ary) - 1
           /\ pc[c] # "start"
              => /\ lower[c] <= Len(ary) /\ upper[c] >= -1
                 /\ lower[c] <= upper[c] + 1
====
